---- MODULE Spec2Model ----
(***************************************************************************)
(* Model of crawl_gutendex.py: fetch_books, roman_numeral, download_book   *)
(* and main.  Python strings are sequences of one-character strings, so    *)
(* that slicing, replace, startswith, the sanitising comprehension and the *)
(* regular-expression split act on characters as the code does.  A path is *)
(* the sequence of its components (os.path.join).                          *)
(***************************************************************************)
EXTENDS Integers, Sequences, FiniteSets, TLC

\* ------------------------------------------------------------------ bounds
\* longest list of records the catalog returns
MaxBooks == 2
\* largest argument roman_numeral is applied to in SpecRoman
MaxRoman == 3999
\* longest tail appended to a title prefix / longest author in SpecNames
MaxTail == 2

\* ------------------------------------------------------- string literals
S_UnknownTitle == <<"U","n","k","n","o","w","n"," ","T","i","t","l","e">>
S_UnknownAuthor == <<"U","n","k","n","o","w","n"," ","A","u","t","h","o","r">>
S_TextPlain == <<"t","e","x","t","/","p","l","a","i","n">>
S_TextHtml == <<"t","e","x","t","/","h","t","m","l">>
S_ImagePrefix == <<"i","m","a","g","e","/">>
S_ImageJpeg == <<"i","m","a","g","e","/","j","p","e","g">>
S_ImagePng == <<"i","m","a","g","e","/","p","n","g">>
S_AppPdf == <<"a","p","p","l","i","c","a","t","i","o","n","/","p","d","f">>
S_Output == <<"o","u","t","p","u","t">>
S_ChapterUnderscore == <<"C","h","a","p","t","e","r","_">>
S_Txt == <<".","t","x","t">>
S_Images == <<"i","m","a","g","e","s">>
S_ImageUnderscore == <<"i","m","a","g","e","_">>
S_Jpg == <<".","j","p","g">>
S_MetadataJson == <<"m","e","t","a","d","a","t","a",".","j","s","o","n">>
S_Html == <<".","h","t","m","l">>
S_SpaceDashSpace == <<" ","-"," ">>
S_Dash == <<"-">>
S_Chapter == <<"C","h","a","p","t","e","r">>

\* the characters of "<>:\"/\\|?*" (lines 64-65)
ReservedChars == {"<", ">", ":", "\"", "/", "\\", "|", "?", "*"}

\* [:10] on line 50
TitleLen == 10

\* Python's None; no URL of the model is this string
None == "None"

\* ------------------------------------------------------- Python helpers
Min(a, b) == IF a < b THEN a ELSE b

\* s.replace(old, new) for one-character old and new
Replace(s, old, new) == [k \in 1..Len(s) |-> IF s[k] = old THEN new ELSE s[k]]

\* s[:n]
Slice(s, n) == SubSeq(s, 1, Min(n, Len(s)))

\* ''.join(c for c in s if c not in "<>:\"/\\|?*")
Sanitize(s) == SelectSeq(s, LAMBDA c : c \notin ReservedChars)

\* key.startswith(prefix)
StartsWith(s, prefix) ==
    /\ Len(s) >= Len(prefix)
    /\ SubSeq(s, 1, Len(prefix)) = prefix

\* str(n) for n >= 0: the decimal digits of n
Digit(d) == <<"0","1","2","3","4","5","6","7","8","9">>[d + 1]

RECURSIVE IntToStr(_)
IntToStr(n) == IF n < 10 THEN <<Digit(n)>>
               ELSE IntToStr(n \div 10) \o <<Digit(n % 10)>>

\* dict.get(key, default) on a dict modelled as a function
DictGet(d, key, default) == IF key \in DOMAIN d THEN d[key] ELSE default

\* formats is an ordered dict: a sequence of [key, url] items with distinct
\* keys; formats.get(key) is None when the key is absent
RECURSIVE ItemsGet(_, _)
ItemsGet(items, key) ==
    IF items = <<>> THEN None
    ELSE IF Head(items).key = key THEN Head(items).url
    ELSE ItemsGet(Tail(items), key)

\* truthiness of a URL value: None and "" are falsy
Truthy(v) == v # None /\ v # ""

\* ------------------------------------------------------- roman_numeral
val == <<1000, 900, 500, 400, 100, 90, 50, 40, 10, 9, 5, 4, 1>>

syms_swapped == <<<<"M">>, <<"C","M">>, <<"D">>, <<"D","C">>,
                  <<"C">>, <<"X","C">>, <<"L">>, <<"X","L">>,
                  <<"X">>, <<"I","X">>, <<"V">>, <<"I","V">>,
                  <<"I">>>>

syms == <<<<"M">>, <<"C","M">>, <<"D">>, <<"C","D">>,
          <<"C">>, <<"X","C">>, <<"L">>, <<"X","L">>,
          <<"X">>, <<"I","X">>, <<"V">>, <<"I","V">>,
          <<"I">>>>

\* the for loop of lines 42-44: count times, append syms[i] and subtract val[i]
RECURSIVE RomanFor(_, _, _, _)
RomanFor(count, n, i, roman_num) ==
    IF count = 0 THEN [n |-> n, roman_num |-> roman_num]
    ELSE RomanFor(count - 1, n - val[i], i, roman_num \o syms[i])

\* the while loop of lines 41-45; i is the 1-based index into val and syms, so
\* an i past 13 with n > 0 is the code's IndexError (TLC reports it)
RECURSIVE RomanWhile(_, _, _)
RomanWhile(n, i, roman_num) ==
    IF n > 0
    THEN LET r == RomanFor(n \div val[i], n, i, roman_num)
         IN  RomanWhile(r.n, i + 1, r.roman_num)
    ELSE roman_num

roman_numeral(n) == RomanWhile(n, 1, <<>>)

\* ------------------------------------------------------------- re.split
\* number of consecutive occurrences of character c in text from position p
RECURSIVE RunLen(_, _, _)
RunLen(text, p, c) ==
    IF p <= Len(text) /\ text[p] = c THEN 1 + RunLen(text, p + 1, c) ELSE 0

\* The pattern of line 78 is the raw string r'Chapter\\s+\\d+': in a raw
\* string \\ stays two characters, which the regex reads as one literal
\* backslash, so the pattern is "Chapter", a backslash, one or more "s", a
\* backslash, one or more "d".  ChapterPatternEnd(text, p) is the position just
\* past the (greedy) match starting at p, or 0 when none starts there.
ChapterPatternEnd(text, p) ==
    LET a == RunLen(text, p + 8, "s")
        q == p + 8 + a
        b == RunLen(text, q + 1, "d")
    IN  IF /\ p + 6 <= Len(text)
           /\ SubSeq(text, p, p + 6) = S_Chapter
           /\ p + 7 <= Len(text) /\ text[p + 7] = "\\"
           /\ a >= 1
           /\ q <= Len(text) /\ text[q] = "\\"
           /\ b >= 1
        THEN q + 1 + b
        ELSE 0

\* leftmost position >= p where the pattern matches, or 0
RECURSIVE SearchFrom(_, _)
SearchFrom(text, p) ==
    IF p > Len(text) THEN 0
    ELSE IF ChapterPatternEnd(text, p) > 0 THEN p
    ELSE SearchFrom(text, p + 1)

\* re.split(pattern, text) from position pos on: the text between matches
RECURSIVE SplitFrom(_, _)
SplitFrom(text, pos) ==
    LET m == SearchFrom(text, pos)
    IN  IF m = 0 THEN <<SubSeq(text, pos, Len(text))>>
        ELSE <<SubSeq(text, pos, m - 1)>>
             \o SplitFrom(text, ChapterPatternEnd(text, m))

re_split(text) == SplitFrom(text, 1)

\* ------------------------------------------------------------ filesystem
\* os.makedirs(path, exist_ok=True): the directory and its missing parents
makedirs(ds, path) == ds \cup {SubSeq(path, 1, k) : k \in 1..Len(path)}

\* open(path, "w").write(content): create the file or replace its content
WriteFile(fs, path, content) == (path :> content) @@ fs

\* an entry of the log of filesystem operations and calls
Event(op, rec, path) == [op |-> op, rec |-> rec, path |-> path]

\* ------------------------------------------------- download_book, pure parts
\* the {} of the default [{}] on line 51: a dict without keys
EmptyDict == [k \in {} |-> k]

\* line 50 without the [:10]
BookTitleUntruncated(book) ==
    Replace(DictGet(book, "title", S_UnknownTitle), "/", "-")

\* line 50
BookTitle(book) ==
    Slice(Replace(DictGet(book, "title", S_UnknownTitle), "/", "-"), TitleLen)

\* line 51, for a record whose authors list is not empty
BookAuthor(book) ==
    Replace(DictGet(DictGet(book, "authors", <<EmptyDict>>)[1],
                    "name", S_UnknownAuthor), "/", "-")

\* line 52, for a record whose languages list is not empty
BookLanguage(book) == DictGet(book, "languages", <<"Unknown">>)[1]

\* lines 51-52: [0] of an empty list raises IndexError, which nothing catches
RaisesIndexError(book) ==
    \/ DictGet(book, "authors", <<EmptyDict>>) = <<>>
    \/ DictGet(book, "languages", <<"Unknown">>) = <<>>

\* line 53: formats["text/plain"] or formats["text/html"]
DownloadUrl(book) ==
    LET formats == DictGet(book, "formats", <<>>)
    IN  IF Truthy(ItemsGet(formats, S_TextPlain))
        THEN ItemsGet(formats, S_TextPlain)
        ELSE ItemsGet(formats, S_TextHtml)

\* line 68: the book folder's name
FolderName(t, a) == Sanitize(t) \o S_SpaceDashSpace \o Sanitize(a)

\* line 72
FileName(t, a) == Sanitize(t) \o S_Dash \o Sanitize(a) \o S_Html

\* lines 80 and 84, i the 0-based index of enumerate
ChapterFolderName(i) == S_ChapterUnderscore \o roman_numeral(i + 1)
ChapterFileName(i) == S_ChapterUnderscore \o roman_numeral(i + 1) \o S_Txt

\* line 96, i the 0-based index of enumerate
ImageFileName(i) == S_ImageUnderscore \o IntToStr(i + 1) \o S_Jpg

\* line 89: the URLs of the formats items whose key starts with "image/"
RECURSIVE ImageUrls(_)
ImageUrls(items) ==
    IF items = <<>> THEN <<>>
    ELSE (IF StartsWith(Head(items).key, S_ImagePrefix)
          THEN <<Head(items).url>> ELSE <<>>) \o ImageUrls(Tail(items))

\* lines 79-86 on the directories: one folder per chapter
ChapterDirs(ds, folder, n) ==
    ds \cup {Append(folder, ChapterFolderName(i)) : i \in 0..(n - 1)}

\* lines 79-86 on the files: chapter i's text in its file, in order
RECURSIVE ChapterFiles(_, _, _, _)
ChapterFiles(fs, folder, chaps, i) ==
    IF i >= Len(chaps) THEN fs
    ELSE ChapterFiles(
           WriteFile(fs, folder \o <<ChapterFolderName(i), ChapterFileName(i)>>,
                     chaps[i + 1]),
           folder, chaps, i + 1)

\* lines 79-86 in the log: makedirs then write, chapter by chapter
ChapterEvents(rec, folder, n) ==
    [k \in 1..(2 * n) |->
        LET i == (k - 1) \div 2
        IN  IF k % 2 = 1
            THEN Event("makedirs", rec, Append(folder, ChapterFolderName(i)))
            ELSE Event("write", rec,
                       folder \o <<ChapterFolderName(i), ChapterFileName(i)>>)]

\* lines 110-115 with one entry too few
ChapterEntriesShort(n) ==
    [k \in 1..(n - 1) |->
        [chapter_number |-> roman_numeral(k),
         local_file_path |-> <<ChapterFolderName(k - 1), ChapterFileName(k - 1)>>]]

\* lines 110-115: the chapters array of the metadata, n = len(chapters)
ChapterEntries(n) ==
    [k \in 1..n |->
        [chapter_number |-> roman_numeral((k - 1) + 1),
         local_file_path |-> <<ChapterFolderName(k - 1), ChapterFileName(k - 1)>>]]

\* lines 116-118: the images array of the metadata, n = len(image_urls)
ImageEntries(n) == [k \in 1..n |-> <<S_Images, ImageFileName(k - 1)>>]

\* lines 103-119
Metadata(t, a, lang, url, path, nchapters, nimages) ==
    [title |-> t, author |-> a, language |-> lang, download_url |-> url,
     local_file_path |-> path, source |-> "Project Gutenberg",
     chapters |-> ChapterEntries(nchapters),
     images |-> ImageEntries(nimages)]

\* ------------------------------------------------------------ environment
S_TitleSawyer == <<"T","o","m",":"," ","A","/","B"," ","S","a","w","y","e","r">>
S_TitleSailor == <<"T","o","m",":"," ","A","/","B"," ","S","a","i","l","o","r">>
S_Twain == <<"T","w","a","i","n",","," ","M","a","r","k">>
S_Poe == <<"P","o","e","|","E",".","A",".">>

\* the records the catalog may return: every field present, absent or empty
R_Sawyer ==
    [title |-> S_TitleSawyer,
     authors |-> <<[name |-> S_Twain, birth_year |-> 1835]>>,
     languages |-> <<"en">>,
     formats |-> <<[key |-> S_TextHtml, url |-> "h1"],
                   [key |-> S_ImageJpeg, url |-> "i1"],
                   [key |-> S_TextPlain, url |-> "t1"],
                   [key |-> S_ImagePng, url |-> "i2"]>>]
R_Sailor ==
    [title |-> S_TitleSailor,
     authors |-> <<[name |-> S_Twain, birth_year |-> 1835]>>,
     languages |-> <<"fr", "en">>,
     formats |-> <<[key |-> S_TextPlain, url |-> ""],
                   [key |-> S_TextHtml, url |-> "h2"]>>]
R_Bare ==
    [formats |-> <<[key |-> S_TextPlain, url |-> "t3"]>>]
R_NoText ==
    [title |-> S_Poe,
     authors |-> <<[birth_year |-> 1809]>>,
     languages |-> <<"en">>,
     formats |-> <<[key |-> S_AppPdf, url |-> "p4"],
                   [key |-> S_ImageJpeg, url |-> "i4"]>>]
R_NoFormats ==
    [title |-> <<>>, authors |-> <<[name |-> S_Poe]>>, languages |-> <<"en">>]
R_NoAuthors ==
    [title |-> S_Poe, authors |-> <<>>, languages |-> <<"en">>,
     formats |-> <<[key |-> S_TextPlain, url |-> "t6"]>>]
R_NoLanguages ==
    [title |-> S_Poe, authors |-> <<[name |-> S_Poe]>>, languages |-> <<>>,
     formats |-> <<[key |-> S_TextHtml, url |-> "h7"]>>]

Records == {R_Sawyer, R_Sailor, R_Bare, R_NoText, R_NoFormats, R_NoAuthors,
            R_NoLanguages}

\* the lists of at most MaxBooks records
Catalogs == UNION {[1..n -> Records] : n \in 0..MaxBooks}

\* response.text of a successful GET of url
Body(url) ==
    CASE url = "t1" ->
           <<"I","n","t","r","o"," ","t","e","x","t"," ",
             "C","h","a","p","t","e","r"," ","1"," ",
             "b","o","d","y"," ","o","n","e"," ",
             "C","h","a","p","t","e","r"," ","2"," ",
             "b","o","d","y"," ","t","w","o">>
      [] url = "h2" ->
           <<"a","C","h","a","p","t","e","r","\\","s","s","\\","d","d","b">>
      [] OTHER -> <<"a","b","c">>

\* image_response.content of a successful GET of url
ImageBytes(url) == <<"bytes of", url>>

\* how a GET ends: a body, raise_for_status raising HTTPError, or the
\* transport raising ConnectionError or Timeout (all RequestException)
Failures == {"http_error", "transport_error"}

\* args.output as a path
output_dir == <<S_Output>>

\* ------------------------------------------------------------------ state
VARIABLES
    pc,           \* where main is
    dirs,         \* the directories that exist
    files,        \* the files that exist: path -> content
    books,        \* main's books
    book_i,       \* how many records the for loop of main has taken
    title, author, language, download_url,   \* download_book's locals
    book_folder, file_path, chapters, image_urls,
    idx,          \* how many image URLs the loop of line 92 has taken
    trace,        \* the calls and filesystem operations so far, in order
    input,        \* the argument of a function applied on its own
    output        \* what that function returned

vars == <<pc, dirs, files, books, book_i, title, author, language,
          download_url, book_folder, file_path, chapters, image_urls, idx,
          trace, input, output>>

io == <<input, output>>

locals == <<title, author, language, download_url, book_folder, file_path,
            chapters, image_urls, idx>>

\* download_book's locals outside a call
NoLocals ==
    /\ title' = <<>>
    /\ author' = <<>>
    /\ language' = ""
    /\ download_url' = None
    /\ book_folder' = <<>>
    /\ file_path' = <<>>
    /\ chapters' = <<>>
    /\ image_urls' = <<>>
    /\ idx' = 0

\* the state before main runs, but for pc, dirs, input and output
Fresh ==
    /\ files = <<>>
    /\ books = <<>>
    /\ book_i = 0
    /\ title = <<>>
    /\ author = <<>>
    /\ language = ""
    /\ download_url = None
    /\ book_folder = <<>>
    /\ file_path = <<>>
    /\ chapters = <<>>
    /\ image_urls = <<>>
    /\ idx = 0
    /\ trace = <<>>

\* main is about to run; the output directory may be there already
Init ==
    /\ pc = "start"
    /\ dirs \in {{}, {output_dir}}
    /\ Fresh
    /\ input = <<>>
    /\ output = <<>>

\* ------------------------------------------------------------------- main
\* line 138
main_makedirs ==
    /\ pc = "start"
    /\ dirs' = makedirs(dirs, output_dir)
    /\ trace' = Append(trace, Event("makedirs", 0, output_dir))
    /\ pc' = "fetch"
    /\ UNCHANGED <<io, files, books, book_i, locals>>

\* lines 141, 17-20: the catalog answers with a results list
fetch_books_ok ==
    /\ pc = "fetch"
    /\ \E results \in Catalogs : books' = results
    /\ trace' = Append(trace, Event("fetch_books", 0, <<>>))
    /\ pc' = "loop"
    /\ UNCHANGED <<io, dirs, files, book_i, locals>>

\* lines 141, 18-19 without the except clause: the exception leaves main
fetch_books_error_propagates ==
    /\ pc = "fetch"
    /\ \E failure \in Failures :
         trace' = trace \o <<Event("fetch_books", 0, <<>>),
                             Event(failure, 0, <<>>)>>
    /\ pc' = "crashed"
    /\ UNCHANGED <<io, dirs, files, books, book_i, locals>>

\* lines 141, 21-23: RequestException caught, [] returned
fetch_books_error ==
    /\ pc = "fetch"
    /\ \E failure \in Failures :
         trace' = trace \o <<Event("fetch_books", 0, <<>>),
                             Event(failure, 0, <<>>)>>
    /\ books' = <<>>
    /\ pc' = "loop"
    /\ UNCHANGED <<io, dirs, files, book_i, locals>>

\* lines 141, 20: no "results" key, KeyError leaves main
fetch_books_no_results ==
    /\ pc = "fetch"
    /\ trace' = Append(trace, Event("fetch_books", 0, <<>>))
    /\ pc' = "crashed"
    /\ UNCHANGED <<io, dirs, files, books, book_i, locals>>

\* lines 144-145, 50-52: the next record's authors or languages list is empty
download_book_raises ==
    /\ pc = "loop"
    /\ book_i < Len(books)
    /\ RaisesIndexError(books[book_i + 1])
    /\ book_i' = book_i + 1
    /\ trace' = Append(trace, Event("download_book", book_i + 1, <<>>))
    /\ pc' = "crashed"
    /\ UNCHANGED <<io, dirs, files, books, locals>>

\* lines 144-145, 50-57: no usable download URL, download_book returns
download_book_no_format ==
    /\ pc = "loop"
    /\ book_i < Len(books)
    /\ ~RaisesIndexError(books[book_i + 1])
    /\ ~Truthy(DownloadUrl(books[book_i + 1]))
    /\ book_i' = book_i + 1
    /\ trace' = Append(trace, Event("download_book", book_i + 1, <<>>))
    /\ pc' = "sleep"
    /\ UNCHANGED <<io, dirs, files, books, locals>>

\* lines 144-145, 50-55: the locals are set and the content is requested
download_book_begin ==
    /\ pc = "loop"
    /\ book_i < Len(books)
    /\ ~RaisesIndexError(books[book_i + 1])
    /\ Truthy(DownloadUrl(books[book_i + 1]))
    /\ book_i' = book_i + 1
    /\ title' = BookTitle(books[book_i + 1])
    /\ author' = BookAuthor(books[book_i + 1])
    /\ language' = BookLanguage(books[book_i + 1])
    /\ download_url' = DownloadUrl(books[book_i + 1])
    /\ trace' = Append(trace, Event("download_book", book_i + 1, <<>>))
    /\ pc' = "content"
    /\ UNCHANGED <<io, dirs, files, books, book_folder, file_path, chapters,
                   image_urls, idx>>

\* lines 60-61, 125-126 with the folder of line 69 made before the GET
content_fetch_fails_after_folder ==
    /\ pc = "content"
    /\ LET folder == Append(output_dir, FolderName(title, author))
       IN  /\ dirs' = makedirs(dirs, folder)
           /\ \E failure \in Failures :
                trace' = trace \o <<Event("makedirs", book_i, folder),
                                    Event(failure, book_i, <<>>)>>
    /\ NoLocals
    /\ pc' = "sleep"
    /\ UNCHANGED <<io, files, books, book_i>>

\* lines 60-61, 125-126: the content GET fails, download_book returns
content_fetch_fails ==
    /\ pc = "content"
    /\ \E failure \in Failures :
         trace' = Append(trace, Event(failure, book_i, <<>>))
    /\ NoLocals
    /\ pc' = "sleep"
    /\ UNCHANGED <<io, dirs, files, books, book_i>>

\* lines 60-91: the content arrives; folder, content file, chapters, images/
content_fetch_ok ==
    /\ pc = "content"
    /\ LET text == Body(download_url)
           folder == Append(output_dir, FolderName(title, author))
           path == Append(folder, FileName(title, author))
           chaps == re_split(text)
       IN  /\ book_folder' = folder
           /\ file_path' = path
           /\ chapters' = chaps
           /\ image_urls' = ImageUrls(DictGet(books[book_i], "formats", <<>>))
           /\ dirs' = makedirs(ChapterDirs(makedirs(dirs, folder), folder,
                                           Len(chaps)),
                               Append(folder, S_Images))
           /\ files' = ChapterFiles(WriteFile(files, path, text), folder,
                                    chaps, 0)
           /\ trace' = trace
                       \o <<Event("makedirs", book_i, folder),
                            Event("write", book_i, path)>>
                       \o ChapterEvents(book_i, folder, Len(chaps))
                       \o <<Event("makedirs", book_i, Append(folder, S_Images))>>
    /\ idx' = 0
    /\ pc' = "images"
    /\ UNCHANGED <<io, books, book_i, title, author, language, download_url>>

\* lines 92-98: the next image arrives and is written
image_fetch_ok ==
    /\ pc = "images"
    /\ idx < Len(image_urls)
    /\ LET image_path == book_folder \o <<S_Images, ImageFileName(idx)>>
       IN  /\ files' = WriteFile(files, image_path,
                                 ImageBytes(image_urls[idx + 1]))
           /\ trace' = Append(trace, Event("write", book_i, image_path))
    /\ idx' = idx + 1
    /\ UNCHANGED <<io, pc, dirs, books, book_i, title, author, language,
                   download_url, book_folder, file_path, chapters, image_urls>>

\* lines 92-95 without the inner except clause: the failure reaches line 125
image_fetch_fails_aborts ==
    /\ pc = "images"
    /\ idx < Len(image_urls)
    /\ \E failure \in Failures :
         trace' = Append(trace, Event(failure, book_i, <<>>))
    /\ NoLocals
    /\ pc' = "sleep"
    /\ UNCHANGED <<io, dirs, files, books, book_i>>

\* lines 92-95, 99-100: the next image's GET fails, the loop goes on
image_fetch_fails ==
    /\ pc = "images"
    /\ idx < Len(image_urls)
    /\ \E failure \in Failures :
         trace' = Append(trace, Event(failure, book_i, <<>>))
    /\ idx' = idx + 1
    /\ UNCHANGED <<io, pc, dirs, files, books, book_i, title, author, language,
                   download_url, book_folder, file_path, chapters, image_urls>>

\* lines 103-124: metadata.json is written, download_book returns
write_metadata ==
    /\ pc = "images"
    /\ idx = Len(image_urls)
    /\ LET metadata_file == Append(book_folder, S_MetadataJson)
       IN  /\ files' = WriteFile(files, metadata_file,
                                 Metadata(title, author, language, download_url,
                                          file_path, Len(chapters),
                                          Len(image_urls)))
           /\ trace' = Append(trace, Event("write", book_i, metadata_file))
    /\ NoLocals
    /\ pc' = "sleep"
    /\ UNCHANGED <<io, dirs, books, book_i>>

\* line 146
sleep ==
    /\ pc = "sleep"
    /\ trace' = Append(trace, Event("sleep", book_i, <<>>))
    /\ pc' = "loop"
    /\ UNCHANGED <<io, dirs, files, books, book_i, locals>>

\* line 144: the list is exhausted, main returns
main_returns ==
    /\ pc = "loop"
    /\ book_i = Len(books)
    /\ pc' = "done"
    /\ UNCHANGED <<io, dirs, files, books, book_i, locals, trace>>

Next ==
    \/ main_makedirs
    \/ fetch_books_ok
    \/ fetch_books_error
    \/ fetch_books_no_results
    \/ download_book_raises
    \/ download_book_no_format
    \/ download_book_begin
    \/ content_fetch_fails
    \/ content_fetch_ok
    \/ image_fetch_ok
    \/ image_fetch_fails
    \/ write_metadata
    \/ sleep
    \/ main_returns

Spec == Init /\ [][Next]_vars

\* ------------------------------------------- roman_numeral applied on its own
InitRoman ==
    /\ pc = "roman_numeral"
    /\ dirs = {}
    /\ Fresh
    /\ input \in 1..MaxRoman
    /\ output = <<>>

\* lines 25-46
roman_numeral_call ==
    /\ pc = "roman_numeral"
    /\ output' = roman_numeral(input)
    /\ pc' = "returned"
    /\ UNCHANGED <<dirs, files, books, book_i, locals, trace, input>>

NextRoman == roman_numeral_call

SpecRoman == InitRoman /\ [][NextRoman]_vars

\* ------------------------------- the names of download_book on their own
\* the characters titles and authors are drawn from
NameChars == {"a", "/", ":", "-"}

\* the strings over NameChars of length at most MaxTail
Tails == UNION {[1..n -> NameChars] : n \in 0..MaxTail}

\* nine characters, so that a tail crosses the tenth
S_TitlePrefix == <<"T","o","m",":"," ","A","/","B"," ">>

InitNames ==
    /\ pc = "names"
    /\ dirs = {}
    /\ Fresh
    /\ \E prefix \in {<<>>, S_TitlePrefix}, t \in Tails, a \in Tails :
         input = [title |-> prefix \o t, authors |-> <<[name |-> a]>>]
    /\ output = <<>>

\* lines 50-51, 64-65, 68, 72 for the record in input
names_call ==
    /\ pc = "names"
    /\ output' = [folder |-> FolderName(BookTitle(input), BookAuthor(input)),
                  file |-> FileName(BookTitle(input), BookAuthor(input))]
    /\ pc' = "returned"
    /\ UNCHANGED <<dirs, files, books, book_i, locals, trace, input>>

NextNames == names_call

SpecNames == InitNames /\ [][NextNames]_vars

\* ================================================================== claims
\* the positions of seq whose element satisfies Test
Positions(seq, Test(_)) == {k \in 1..Len(seq) : Test(seq[k])}

\* ---------------------------------------------------------------------- C6
RomanChars == {"M", "D", "C", "L", "X", "V", "I"}

RomanValue(c) ==
    CASE c = "M" -> 1000 [] c = "D" -> 500 [] c = "C" -> 100 [] c = "L" -> 50
      [] c = "X" -> 10 [] c = "V" -> 5 [] c = "I" -> 1 [] OTHER -> 0

\* the standard Roman-to-integer parser: a symbol smaller than its right
\* neighbour is subtracted, any other is added
RECURSIVE RomanToInt(_)
RomanToInt(r) ==
    IF r = <<>> THEN 0
    ELSE IF Len(r) >= 2 /\ RomanValue(r[1]) < RomanValue(r[2])
         THEN RomanToInt(Tail(r)) - RomanValue(r[1])
         ELSE RomanToInt(Tail(r)) + RomanValue(r[1])

\* C6: for every n in 1..MaxRoman, roman_numeral(n) returns a string over
\* M, D, C, L, X, V, I that the standard Roman-to-integer parser maps back
\* to n.
C6_RomanRoundTrip ==
    pc = "returned" =>
        /\ \A k \in 1..Len(output) : output[k] \in RomanChars
        /\ RomanToInt(output) = input

C6_Witness ==
    /\ pc = "returned"
    /\ input = 3999
    /\ output = <<"M","M","M","C","M","X","C","I","X">>

\* ---------------------------------------------------------------------- C9
\* s without the characters < > : " / \ | ? *
StripReserved(s) ==
    SelectSeq(s, LAMBDA c : c \notin {"<", ">", ":", "\"", "/", "\\", "|", "?", "*"})

\* s with every "/" turned into "-"
Hyphenated(s) == [k \in 1..Len(s) |-> IF s[k] = "/" THEN "-" ELSE s[k]]

FirstTen(s) == IF Len(s) <= 10 THEN s ELSE SubSeq(s, 1, 10)

NoReserved(s) == \A k \in 1..Len(s) : s[k] \notin ReservedChars

\* C9 as stated: the folder is "<T> - <A>" and the file "<T>-<A>.html" with
\* T the first 10 characters of the title with the reserved characters
\* stripped and A the author with the reserved characters stripped.
C9_NamesStripOnly ==
    pc = "returned" =>
        LET T == StripReserved(FirstTen(input.title))
            A == StripReserved(input.authors[1].name)
        IN  /\ output.folder = T \o <<" ", "-", " ">> \o A
            /\ output.file = T \o <<"-">> \o A \o <<".", "h", "t", "m", "l">>

\* C9 amended: the folder is "<T> - <A>" and the file "<T>-<A>.html" with T
\* the first 10 characters of the title, every "/" replaced by "-" and the
\* other reserved characters stripped, and A the author treated likewise;
\* neither name holds a reserved character, and T has at most 10 characters.
C9_NamesHyphenateThenStrip ==
    pc = "returned" =>
        LET T == StripReserved(Hyphenated(FirstTen(input.title)))
            A == StripReserved(Hyphenated(input.authors[1].name))
        IN  /\ output.folder = T \o <<" ", "-", " ">> \o A
            /\ output.file = T \o <<"-">> \o A \o <<".", "h", "t", "m", "l">>
            /\ Len(T) <= 10
            /\ NoReserved(output.folder)
            /\ NoReserved(output.file)

C9_Witness ==
    /\ pc = "returned"
    /\ input.title = S_TitlePrefix \o <<"a", ":">>
    /\ input.authors[1].name = <<"/", ":">>
    /\ output.folder = <<"T","o","m"," ","A","-","B"," ","a"," ","-"," ","-">>

\* ------------------------------------------------- the log of the main run
LastEvent == trace[Len(trace)]

FsOps == {"makedirs", "write"}

\* download_book has just written a metadata.json and returned
JustWroteMetadata ==
    /\ pc = "sleep"
    /\ trace # <<>>
    /\ LastEvent.op = "write"
    /\ LastEvent.path[Len(LastEvent.path)] = S_MetadataJson

\* the book folder of the metadata.json just written, and its content
MetaFolder == SubSeq(LastEvent.path, 1, Len(LastEvent.path) - 1)
Meta == files[LastEvent.path]

\* the call for record r made a directory or wrote a file
Touched(r) == \E k \in 1..Len(trace) : trace[k].rec = r /\ trace[k].op \in FsOps

\* ---------------------------------------------------------------------- C1
WhitespaceChars == {" ", "\t", "\n", "\r"}
DigitChars == {"0","1","2","3","4","5","6","7","8","9"}

RECURSIVE ClassRunLen(_, _, _)
ClassRunLen(text, p, class) ==
    IF p <= Len(text) /\ text[p] \in class
    THEN 1 + ClassRunLen(text, p + 1, class) ELSE 0

\* the position just past a match, starting at p, of "Chapter", one or more
\* whitespace characters, one or more digits; 0 when none starts there
ClassPatternEnd(text, p) ==
    LET a == ClassRunLen(text, p + 7, WhitespaceChars)
        b == ClassRunLen(text, p + 7 + a, DigitChars)
    IN  IF /\ p + 6 <= Len(text)
           /\ SubSeq(text, p, p + 6) = S_Chapter
           /\ a >= 1
           /\ b >= 1
        THEN p + 7 + a + b
        ELSE 0

\* the number of non-overlapping occurrences, from position pos on, of
\* "Chapter", one or more whitespace characters, one or more digits
RECURSIVE HeadingCount(_, _)
HeadingCount(text, pos) ==
    IF pos > Len(text) THEN 0
    ELSE IF ClassPatternEnd(text, pos) > 0
         THEN 1 + HeadingCount(text, ClassPatternEnd(text, pos))
         ELSE HeadingCount(text, pos + 1)

\* C1: a body with k occurrences of "Chapter", whitespace, digits yields k+1
\* segments: folders Chapter_I .. Chapter_<roman(k+1)> and k+1 chapters
\* entries in metadata.json.
C1_SplitsOnChapterHeadings ==
    JustWroteMetadata =>
        LET k == HeadingCount(files[Meta.local_file_path], 1)
        IN  /\ Len(Meta.chapters) = k + 1
            /\ \A j \in 1..(k + 1) :
                 Append(MetaFolder, S_ChapterUnderscore \o roman_numeral(j))
                     \in dirs

\* ---------------------------------------------------------------------- C2
\* C2: no error raised while processing a record ends the run; only a catalog
\* response without results does, and then no record was processed.
C2_NoRecordErrorIsFatal ==
    pc = "crashed" =>
        \A k \in 1..Len(trace) : trace[k].op # "download_book"

\* ---------------------------------------------------------------------- C3
\* the call for record r skipped the record: it was made for a record without
\* a usable format, or its GET failed before it had written the content file
Skipped(r) ==
    \/ /\ \E k \in 1..Len(trace) : trace[k] = Event("download_book", r, <<>>)
       /\ ~RaisesIndexError(books[r])
       /\ ~Truthy(DownloadUrl(books[r]))
    \/ \E k \in 1..Len(trace) :
          /\ trace[k].rec = r
          /\ trace[k].op \in Failures
          /\ \A j \in 1..(k - 1) :
               ~(trace[j].rec = r /\ trace[j].op = "write")

\* C3: a skipped record's call makes no directory and writes no file; when
\* every record so far was skipped, the output directory is all there is.
C3_SkipLeavesFilesystemUnchanged ==
    /\ \A r \in 1..book_i : Skipped(r) => ~Touched(r)
    /\ (\A r \in 1..book_i : Skipped(r)) =>
           (dirs \subseteq {output_dir} /\ DOMAIN files = {})

C3_Witness ==
    /\ pc = "sleep"
    /\ book_i = 2
    /\ ~Truthy(DownloadUrl(books[1]))
    /\ Truthy(DownloadUrl(books[2]))
    /\ Skipped(1)
    /\ Skipped(2)

\* ---------------------------------------------------------------------- C4
\* what the image loop of the call for record r logged: a write or a failure
\* per image URL
ImageEvents(r) ==
    SelectSeq(trace, LAMBDA e :
        /\ e.rec = r
        /\ \/ e.op \in Failures
           \/ e.op = "write" /\ Len(e.path) = 4 /\ e.path[3] = S_Images)

\* images/image_<k>.jpg, k from 1
ImageRelPath(k) ==
    <<S_Images, <<"i","m","a","g","e","_">> \o IntToStr(k) \o <<".","j","p","g">>>>

\* no call but record r's made or wrote anything under folder
OnlyWriter(r, folder) ==
    \A k \in 1..Len(trace) :
        (trace[k].op \in FsOps /\ trace[k].rec # r /\ Len(trace[k].path) >= 2)
            => SubSeq(trace[k].path, 1, 2) # folder

\* C4: once the content is written the call ends by writing metadata.json,
\* whatever image fetches fail; every image URL is attempted in order,
\* image_<k>.jpg is written by the call exactly when fetch k succeeded, and
\* the images array lists image_1.jpg .. image_<n>.jpg for all n URLs.
C4_FailedImageSkipsOnlyThatImage ==
    /\ (pc = "sleep" /\ Touched(book_i)) => JustWroteMetadata
    /\ JustWroteMetadata =>
         LET urls == ImageUrls(DictGet(books[book_i], "formats", <<>>))
             evs == ImageEvents(book_i)
         IN  /\ Len(evs) = Len(urls)
             /\ \A k \in 1..Len(evs) :
                  /\ evs[k].op = "write" =>
                       /\ evs[k].path = MetaFolder \o ImageRelPath(k)
                       /\ files[evs[k].path] = ImageBytes(urls[k])
                  /\ (evs[k].op \in Failures /\ OnlyWriter(book_i, MetaFolder))
                       => MetaFolder \o ImageRelPath(k) \notin DOMAIN files
             /\ Meta.images = [k \in 1..Len(urls) |-> ImageRelPath(k)]

C4_Witness ==
    /\ JustWroteMetadata
    /\ Len(ImageEvents(book_i)) = 2
    /\ ImageEvents(book_i)[1].op = "write"
    /\ ImageEvents(book_i)[2].op \in Failures
    /\ MetaFolder \o ImageRelPath(1) \in DOMAIN files
    /\ MetaFolder \o ImageRelPath(2) \notin DOMAIN files
    /\ Meta.images = <<ImageRelPath(1), ImageRelPath(2)>>

\* ---------------------------------------------------------------------- C5
\* C5: the calls for two distinct records never make or write anything under
\* the same book folder, and no metadata.json is written twice.
C5_BookDirectoriesIndependent ==
    \A j, k \in 1..Len(trace) :
        (/\ j < k
         /\ trace[j].op \in FsOps /\ trace[k].op \in FsOps
         /\ trace[j].rec >= 1 /\ trace[k].rec >= 1
         /\ books[trace[j].rec] # books[trace[k].rec])
        => /\ SubSeq(trace[j].path, 1, 2) # SubSeq(trace[k].path, 1, 2)
           /\ ~(/\ trace[j].path = trace[k].path
                /\ trace[j].op = "write"
                /\ trace[j].path[Len(trace[j].path)] = S_MetadataJson)

\* ---------------------------------------------------------------------- C7
\* the records download_book was called for, in call order
Calls ==
    LET evs == SelectSeq(trace, LAMBDA e : e.op = "download_book")
    IN  [k \in 1..Len(evs) |-> evs[k].rec]

\* C7: when main is over, fetch_books was called once, right after the output
\* directory was ensured, and download_book once per returned record, in
\* order, each call after the previous call's pause.
C7_EveryRecordOnceInOrder ==
    pc \in {"done", "crashed"} =>
        /\ trace[1] = Event("makedirs", 0, output_dir)
        /\ Positions(trace, LAMBDA e : e.op = "fetch_books") = {2}
        /\ Calls = [k \in 1..Len(books) |-> k]
        /\ \A p \in 1..Len(trace) :
             (trace[p].op = "download_book" /\ trace[p].rec > 1)
                 => trace[p - 1] = Event("sleep", trace[p].rec - 1, <<>>)

\* ---------------------------------------------------------------------- C8
\* the catalog request ended in a transport error or an HTTP error status
CatalogFailed ==
    /\ Len(trace) >= 3
    /\ trace[3].op \in Failures
    /\ trace[3].rec = 0

\* C8: after a failed catalog request fetch_books has returned an empty list
\* and nothing was raised; main finishes with the output directory there, no
\* download_book call and nothing else on disk.
C8_FailedCatalogFetchYieldsEmptyRun ==
    CatalogFailed =>
        /\ books = <<>>
        /\ pc = "done" \/ ENABLED main_returns
        /\ Calls = <<>>
        /\ dirs = {output_dir}
        /\ DOMAIN files = {}

C8_Witness ==
    /\ CatalogFailed
    /\ pc = "done"
    /\ trace[3].op = "http_error"
    /\ dirs = {output_dir}

\* --------------------------------------------------------------------- C10
\* the chapter files the call for record r wrote, in order
ChapterWrites(r) ==
    SelectSeq(trace, LAMBDA e :
        /\ e.rec = r
        /\ e.op = "write"
        /\ Len(e.path) = 4
        /\ e.path[3] # S_Images)

\* Chapter_<roman(k)>/Chapter_<roman(k)>.txt, k from 1
ChapterRelPath(k) ==
    <<<<"C","h","a","p","t","e","r","_">> \o roman_numeral(k),
      <<"C","h","a","p","t","e","r","_">> \o roman_numeral(k)
          \o <<".","t","x","t">>>>

\* C10: when metadata.json is written its chapters array has one entry per
\* segment of the split, at least one; entry k has chapter_number roman(k) and
\* path Chapter_<roman(k)>/Chapter_<roman(k)>.txt, and that file was written,
\* with segment k, earlier in the same call.
C10_ChaptersAgreeWithFiles ==
    JustWroteMetadata =>
        LET segments == re_split(files[Meta.local_file_path])
            writes == ChapterWrites(book_i)
            n == Len(Meta.chapters)
        IN  /\ n >= 1
            /\ n = Len(segments)
            /\ n = Len(writes)
            /\ \A k \in 1..n :
                 /\ Meta.chapters[k].chapter_number = roman_numeral(k)
                 /\ Meta.chapters[k].local_file_path = ChapterRelPath(k)
                 /\ writes[k].path = MetaFolder \o ChapterRelPath(k)
                 /\ MetaFolder \o ChapterRelPath(k) \in DOMAIN files
                 /\ files[MetaFolder \o ChapterRelPath(k)] = segments[k]

C10_Witness ==
    /\ JustWroteMetadata
    /\ Len(Meta.chapters) = 2
    /\ Meta.chapters[2].chapter_number = <<"I", "I">>
    /\ files[MetaFolder \o ChapterRelPath(2)] = <<"b">>

====
